---- MODULE Spec2Model ----
(***************************************************************************)
(* Model of the MeetMind meeting-intelligence pipeline:                    *)
(*   - WhisperService: window planning, FFmpeg segmentation, the bounded   *)
(*     transcription pool and the cleanup of temporary chunk files         *)
(*     (app/services/whisper_service.py);                                  *)
(*   - VectorStoreService: per-user collections, lookup-or-create,         *)
(*     indexing and search (app/services/vector_store_service.py).         *)
(* Durations are whole seconds.  Texts are sequences of one-character      *)
(* strings.                                                                *)
(***************************************************************************)
EXTENDS Integers, Sequences, FiniteSets, TLC

(***************************************************************************)
(* Program constants                                                       *)
(***************************************************************************)
CHUNK_DURATION_SECONDS == 600

OVERLAP_SECONDS == 10

MAX_PARALLEL_TRANSCRIPTIONS == 3

MAX_FILE_SIZE == 25 * 1024 * 1024

MAX_UPLOAD_SIZE == 100 * 1024 * 1024

\* validate_audio_file: "if duration_minutes > 120"
MAX_DURATION_MINUTES == 120

\* _sanitize_user_id: "safe_id = safe_id[:100]"
SAFE_ID_MAX_LENGTH == 100

\* _get_or_create_collection: "stop=stop_after_attempt(3)"
MAX_PROVISION_ATTEMPTS == 3

(***************************************************************************)
(* Bounds of the model                                                     *)
(***************************************************************************)
\* largest duration the window-planning specification enumerates
MaxDuration == 2400

\* largest number of chunks a modelled transcription is split into
MaxPoolChunks == 4

\* largest number of os.remove failures within one cleanup loop
MaxRemoveFailures == 1

\* largest number of VectorStoreService calls in one behaviour
MaxOps == 2

\* largest number of failing remote calls in one behaviour
MaxFaults == 1

\* largest number of transcript chunks, decisions, action items and key
\* points the document-preparation specification enumerates
MaxItems == 3

(***************************************************************************)
(* Small helpers                                                           *)
(***************************************************************************)
Max(a, b) == IF a >= b THEN a ELSE b

Min(a, b) == IF a <= b THEN a ELSE b

\* ceil(a / b) for b > 0, any integer a
CeilDiv(a, b) == -((-a) \div b)

\* the elements of a sequence
Range(s) == {s[k] : k \in 1..Len(s)}

(***************************************************************************)
(* Window planning of split_audio_with_ffmpeg                              *)
(***************************************************************************)
\* Python int(a / b) for b > 0: truncation toward zero
IntTrunc(a, b) == IF a >= 0 THEN a \div b ELSE -((-a) \div b)

effective_chunk_duration == CHUNK_DURATION_SECONDS - OVERLAP_SECONDS

num_chunks(D) == Max(1, IntTrunc(D - OVERLAP_SECONDS, effective_chunk_duration) + 1)

start_time_NoOverlap(i) == i * CHUNK_DURATION_SECONDS

start_time(i) == IF i = 0 THEN 0 ELSE i * effective_chunk_duration

chunk_duration(D, i) == Min(CHUNK_DURATION_SECONDS, D - start_time(i))

(***************************************************************************)
(* Texts                                                                   *)
(***************************************************************************)
IsSpace(c) == c = " "

RECURSIVE LStrip(_)
LStrip(s) == IF s # <<>> /\ IsSpace(Head(s)) THEN LStrip(Tail(s)) ELSE s

RECURSIVE RStrip(_)
RStrip(s) ==
    IF s # <<>> /\ IsSpace(s[Len(s)]) THEN RStrip(SubSeq(s, 1, Len(s) - 1)) ELSE s

\* str.strip()
Strip(s) == RStrip(LStrip(s))

\* " ".join(parts)
RECURSIVE JoinSpace(_)
JoinSpace(parts) ==
    IF parts = <<>> THEN <<>>
    ELSE IF Len(parts) = 1 THEN parts[1]
    ELSE parts[1] \o <<" ">> \o JoinSpace(Tail(parts))

VARIABLES
    pc,                 \* position of the transcribe_audio invocation
    openai_api_key,     \* settings.openai_api_key is set
    file_size,          \* os.path.getsize(audio_path)
    duration_seconds,   \* total duration D handed to split_audio_with_ffmpeg
    windows,            \* the (-ss, -t) pair computed for each chunk so far
    split_paths,        \* split_audio_with_ffmpeg: its local list chunk_paths
    chunk_paths,        \* transcribe_audio: its variable chunk_paths
    disk,               \* temporary chunk files that exist
    created,            \* temporary chunk files created by this invocation
    remove_failed,      \* chunk files whose os.remove raised
    ffmpeg_outcome,     \* how the last chunk extraction of the Segmenter ended
    submitted,          \* number of executor.submit calls made
    work_queue,         \* ThreadPoolExecutor work queue (chunk indices)
    fut,                \* the future of every submitted chunk
    stt_calls,          \* speech-to-text calls started: <<path, chunk_index>>
    completion,         \* chunk indices in the order their calls finished
    collector,          \* as_completed: state of the generator
    observed,           \* chunk indices in the order as_completed yielded them
    transcripts,        \* transcribe_chunks_parallel: the pre-sized slot list
    pool_error,         \* the exception raised inside the collection loop
    transcript_response, \* the answer to the whole-file speech-to-text call
    result              \* what transcribe_audio returned or raised

VARIABLES
    collections,        \* remote store: the collections, [name, id]
    fragments,          \* remote store: the records of all collections
    req,                \* the VectorStoreService call each request is in
    ops_started,        \* number of service calls started so far
    faults,             \* number of remote-call failures injected so far
    index_log,          \* the index_meeting calls that returned, in order
    overlapped          \* some call started while another was in progress

VARIABLES
    prepare_args,       \* _prepare_documents: the sizes of its arguments
    documents           \* _prepare_documents: the documents, metadatas and ids

VARIABLES
    rag                 \* the query the endpoint is serving: query_meetings

VARIABLES
    meetings,           \* the meetings table: [id, user_id]
    upload_dir,         \* the files in settings.upload_dir
    upload,             \* the process_meeting call being served
    uploads_started,    \* number of process_meeting calls so far
    lookup              \* the last get_meeting_by_id call and how it ended

VARIABLES
    _rag_service_instance,  \* routers/rag.py: the module global (0 is None)
    resolving,          \* get_rag_service: where each request's call is
    constructed         \* number of RAGService() constructions

vars == <<pc, openai_api_key, file_size, duration_seconds, windows, split_paths,
          chunk_paths, disk, created, remove_failed, ffmpeg_outcome, submitted,
          work_queue, fut,
          stt_calls, completion, collector, observed, transcripts, pool_error,
          transcript_response, result, collections, fragments, req, ops_started, faults, index_log,
          overlapped, prepare_args, documents, rag, meetings, upload_dir,
          upload, uploads_started, lookup, _rag_service_instance, resolving,
          constructed>>

docVars == <<prepare_args, documents>>

ragVars == <<rag>>

meetingVars == <<meetings, upload_dir, upload, uploads_started, lookup>>

singletonVars == <<_rag_service_instance, resolving, constructed>>

apiVars == <<ragVars, meetingVars, singletonVars>>

storeVars == <<collections, fragments, req, ops_started, faults, index_log,
               overlapped>>

pipelineVars == <<pc, openai_api_key, file_size, split_paths, chunk_paths, disk,
                  created, remove_failed, ffmpeg_outcome, submitted, work_queue,
                  fut, stt_calls,
                  completion, collector, observed, transcripts, pool_error,
                  transcript_response, result>>

NoResult == [kind |-> "none", status |-> 0, detail |-> "", text |-> <<>>]

NoError == [raised |-> FALSE, chunk |-> 0]

\* the whole-file speech-to-text call has not been made
NoReply == [made |-> FALSE, ok |-> FALSE, text |-> <<>>]

IdleCollector == [started |-> FALSE, snapshot |-> {}, finished_futures |-> <<>>]

\* the pipeline at rest
PipelineIdle ==
    /\ pc = "idle"
    /\ openai_api_key = TRUE
    /\ file_size = 0
    /\ split_paths = <<>>
    /\ chunk_paths = <<>>
    /\ disk = {}
    /\ created = {}
    /\ remove_failed = {}
    /\ ffmpeg_outcome = "none"
    /\ submitted = 0
    /\ work_queue = <<>>
    /\ fut = <<>>
    /\ stt_calls = <<>>
    /\ completion = <<>>
    /\ collector = IdleCollector
    /\ observed = <<>>
    /\ transcripts = <<>>
    /\ pool_error = NoError
    /\ transcript_response = NoReply
    /\ result = NoResult

\* the requests that may be served at the same time
Requests == {1, 2}

\* the query endpoint has not answered
NoResponse ==
    [status |-> 0, detail |-> "", answer |-> "", sources |-> <<>>,
     context_used |-> <<>>]

IdleRequest ==
    [op |-> "idle", pc |-> "done", user_id |-> <<>>, meeting_id |-> "",
     version |-> 0, n |-> 0, top_k |-> 0, collection_name |-> <<>>,
     collection_id |-> 0, attempts |-> 0, cause |-> "none", exc |-> "none",
     add_requests |-> 0, results |-> <<>>, calls |-> <<>>]

\* request rq has made one more remote call: its kind and how it ended
Called(rq, kind, outcome) ==
    [rq EXCEPT !.calls = Append(@, [kind |-> kind, outcome |-> outcome])]

\* _prepare_documents has not been called
NoArgs == [chunks |-> 0, decisions |-> 0, action_items |-> 0, key_points |-> 0]

DocsIdle == prepare_args = NoArgs /\ documents = <<>>

\* no query has been received
IdleQuery ==
    [pc |-> "idle", user_id |-> <<>>, query |-> <<>>, top_k |-> 0,
     context_docs |-> <<>>, exc |-> "none", llm_calls |-> 0,
     returned |-> NoResponse, response |-> NoResponse]

\* process_meeting is not being served
IdleUpload ==
    [pc |-> "idle", user_id |-> "", extension_ok |-> TRUE, too_large |-> FALSE,
     vector_store |-> FALSE, audio_path |-> 0, written |-> {},
     failed_step |-> "none", index_failed |-> FALSE,
     outcome |-> NoResult, meeting_id |-> 0]

\* get_meeting_by_id has not been called
NoLookup ==
    [meeting_id |-> 0, user_id |-> "", found |-> {}, status |-> 0,
     detail |-> "", meeting |-> {}]

\* the requests that may resolve get_rag_service at the same time
MaxResolvers == 3

Resolvers == 1..MaxResolvers

\* get_rag_service has not been called by the request
NotResolving == [pc |-> "idle", instance |-> 0]

\* no meeting has been uploaded or read
MeetingsIdle ==
    /\ meetings = {}
    /\ upload_dir = {}
    /\ upload = IdleUpload
    /\ uploads_started = 0
    /\ lookup = NoLookup

\* the module has been imported: no RAGService yet
SingletonIdle ==
    /\ _rag_service_instance = 0
    /\ resolving = [t \in Resolvers |-> NotResolving]
    /\ constructed = 0

\* the endpoints at rest
ApiIdle ==
    /\ rag = IdleQuery
    /\ MeetingsIdle
    /\ SingletonIdle

\* no vector-store call has been made
StoreIdle ==
    /\ collections = {}
    /\ fragments = {}
    /\ req = [r \in Requests |-> IdleRequest]
    /\ ops_started = 0
    /\ faults = 0
    /\ index_log = <<>>
    /\ overlapped = FALSE

(***************************************************************************)
(* Specification of the window loop alone: every duration, every window    *)
(***************************************************************************)
InitWindows ==
    /\ duration_seconds \in 0..MaxDuration
    /\ windows = <<>>
    /\ PipelineIdle
    /\ StoreIdle
    /\ DocsIdle
    /\ ApiIdle

\* one iteration of the for loop, up to the computation of the window
PlanWindow ==
    /\ pc = "idle"
    /\ Len(windows) < num_chunks(duration_seconds)
    /\ LET i == Len(windows)
       IN windows' = Append(windows,
                        [start |-> start_time(i),
                         duration |-> chunk_duration(duration_seconds, i)])
    /\ UNCHANGED <<duration_seconds, pipelineVars>>
    /\ UNCHANGED <<storeVars, docVars, apiVars>>

NextWindows == PlanWindow

SpecWindows == InitWindows /\ [][NextWindows]_vars

(***************************************************************************)
(* transcribe_audio: validation, segmentation, cleanup                     *)
(***************************************************************************)
HTTPException(status, detail) ==
    [type |-> "HTTPException", status |-> status, detail |-> detail]

OtherException(type) == [type |-> type, status |-> 0, detail |-> ""]

Raised(status, detail) ==
    [kind |-> "raised", status |-> status, detail |-> detail, text |-> <<>>]

Returned(text) ==
    [kind |-> "returned", status |-> 200, detail |-> "", text |-> text]

\* the except clauses of transcribe_audio: an HTTPException passes through,
\* anything else becomes a 500
Surface(exc) ==
    IF exc.type = "HTTPException"
    THEN Raised(exc.status, exc.detail)
    ELSE Raised(500, "Failed to transcribe audio")

\* get_audio_duration: the ffprobe answer, or the estimate from the file size
get_audio_duration(size, probe) ==
    IF probe.ok THEN probe.seconds ELSE (size * 60) \div (1024 * 1024)

\* line 107: "if duration_minutes > 120", with duration_minutes = seconds / 60
DurationExceeds_OneMinuteLate(seconds) == seconds > (MAX_DURATION_MINUTES + 1) * 60

DurationExceeds(seconds) == seconds > MAX_DURATION_MINUTES * 60

\* validate_audio_file: the exception it raises, or no exception
validate_audio_file(stat_ok, size, probe) ==
    IF ~stat_ok THEN HTTPException(400, "Invalid audio file")
    ELSE IF size > MAX_UPLOAD_SIZE THEN HTTPException(413, "File too large")
    ELSE IF DurationExceeds(get_audio_duration(size, probe))
         THEN HTTPException(413, "Audio too long")
    ELSE OtherException("none")

\* validate_audio_file reached line 103: the duration was looked up
DurationLookedUp(stat_ok, size) == stat_ok /\ size <= MAX_UPLOAD_SIZE

\* line 333: "if file_size > cls.MAX_FILE_SIZE"
NeedsChunking_AtLimit(size) == size >= MAX_FILE_SIZE

NeedsChunking(size) == size > MAX_FILE_SIZE

\* file sizes on both sides of the two size limits
FileSizes == {MAX_FILE_SIZE, MAX_FILE_SIZE + 1, MAX_UPLOAD_SIZE + 1}

\* durations ffprobe reports: one per chunk count, the 1500 s of the
\* scenario, and both sides of the 120 minute limit
ProbeSeconds ==
    {effective_chunk_duration * k + OVERLAP_SECONDS : k \in 0..(MaxPoolChunks - 1)}
        \cup {1500, MAX_DURATION_MINUTES * 60, MAX_DURATION_MINUTES * 60 + 1}

ProbeOutcomes ==
    {[ok |-> TRUE, seconds |-> d] : d \in ProbeSeconds}
        \cup {[ok |-> FALSE, seconds |-> 0]}

Init ==
    /\ pc = "start"
    /\ openai_api_key \in BOOLEAN
    /\ file_size \in FileSizes
    /\ duration_seconds = 0
    /\ windows = <<>>
    /\ split_paths = <<>>
    /\ chunk_paths = <<>>
    /\ disk = {}
    /\ created = {}
    /\ remove_failed = {}
    /\ ffmpeg_outcome = "none"
    /\ submitted = 0
    /\ work_queue = <<>>
    /\ fut = <<>>
    /\ stt_calls = <<>>
    /\ completion = <<>>
    /\ collector = IdleCollector
    /\ observed = <<>>
    /\ transcripts = <<>>
    /\ pool_error = NoError
    /\ transcript_response = NoReply
    /\ result = NoResult
    /\ StoreIdle
    /\ DocsIdle
    /\ ApiIdle

poolVars == <<submitted, work_queue, fut, stt_calls, completion, collector,
              observed, transcripts, pool_error>>

fileVars == <<split_paths, chunk_paths, disk, created, remove_failed,
              ffmpeg_outcome>>

\* lines 320-333: the API key check, validate_audio_file and the choice
\* between the chunked and the direct path
Validate ==
    /\ pc = "start"
    /\ \E stat_ok \in BOOLEAN, probe \in ProbeOutcomes :
         LET exc == IF ~openai_api_key THEN OtherException("ValueError")
                    ELSE validate_audio_file(stat_ok, file_size, probe)
             d == get_audio_duration(file_size, probe)
         IN IF exc.type # "none"
            THEN /\ result' = Surface(exc)
                 /\ pc' = "finally"
                 /\ duration_seconds' =
                      IF openai_api_key /\ DurationLookedUp(stat_ok, file_size)
                      THEN d ELSE duration_seconds
            ELSE \* a chunked transcription stays within the modelled pool
                 /\ NeedsChunking(file_size) => num_chunks(d) <= MaxPoolChunks
                 /\ duration_seconds' = d
                 /\ pc' = IF NeedsChunking(file_size) THEN "check_ffmpeg"
                                                      ELSE "direct"
                 /\ UNCHANGED result
    /\ UNCHANGED <<openai_api_key, file_size, windows, fileVars, poolVars>>
    /\ UNCHANGED <<transcript_response, storeVars, docVars, apiVars>>

\* lines 336-342: check_ffmpeg_available
CheckFfmpeg ==
    /\ pc = "check_ffmpeg"
    /\ \E available \in BOOLEAN :
         IF available
         THEN pc' = "split" /\ UNCHANGED result
         ELSE /\ result' = Surface(HTTPException(413, "Install FFmpeg"))
              /\ pc' = "finally"
    /\ UNCHANGED <<openai_api_key, file_size, duration_seconds, windows,
                   fileVars, poolVars>>
    /\ UNCHANGED <<transcript_response, storeVars, docVars, apiVars>>

\* the sets of files whose removal may fail during one cleanup of files
RemoveFailures(files) ==
    {F \in SUBSET files : Cardinality(F) <= MaxRemoveFailures}

\* outcomes of one subprocess.run(["ffmpeg", ...], check=True, timeout=60)
FfmpegOutcomes == {"ok", "CalledProcessError", "TimeoutExpired", "FileNotFoundError"}

\* the except clause of the loop body catches subprocess.CalledProcessError only
SplitCatches(run) == run = "CalledProcessError"

\* one iteration of the for loop of split_audio_with_ffmpeg (lines 149-216);
\* the last successful iteration returns the list to transcribe_audio (219, 345)
SplitChunk ==
    /\ pc = "split"
    /\ LET i == Len(split_paths)
           n == num_chunks(duration_seconds)
           chunk_path == i
           earlier == Range(split_paths)
       IN /\ i < n
          /\ windows' = Append(windows,
                           [start |-> start_time(i),
                            duration |-> chunk_duration(duration_seconds, i)])
          /\ created' = created \cup {chunk_path}
          /\ \E run \in FfmpegOutcomes, too_large \in BOOLEAN,
                failing \in RemoveFailures(earlier \cup {chunk_path}) :
               IF run = "ok" /\ ~too_large
               THEN /\ failing = {}
                    /\ ffmpeg_outcome' = "ok"
                    /\ split_paths' = Append(split_paths, chunk_path)
                    /\ disk' = disk \cup {chunk_path}
                    /\ IF i + 1 = n
                       THEN chunk_paths' = split_paths' /\ pc' = "pool_init"
                       ELSE UNCHANGED <<chunk_paths, pc>>
                    /\ UNCHANGED <<remove_failed, result>>
               ELSE IF run = "ok" \/ SplitCatches(run)
               THEN \* clean up: earlier chunks (failures swallowed), then
                    \* the current chunk (a failure propagates)
                    /\ too_large = (run = "ok")
                    /\ ffmpeg_outcome' = IF too_large THEN "too_large" ELSE run
                    /\ disk' = (disk \cup {chunk_path})
                                  \ ((earlier \cup {chunk_path}) \ failing)
                    /\ remove_failed' = remove_failed \cup failing
                    /\ result' =
                         Surface(IF chunk_path \in failing
                                 THEN OtherException("OSError")
                                 ELSE IF run = "ok"
                                 THEN HTTPException(413, "Chunk too large")
                                 ELSE HTTPException(500, "Failed to split audio"))
                    /\ pc' = "finally"
                    /\ UNCHANGED <<split_paths, chunk_paths>>
               ELSE \* not caught in split_audio_with_ffmpeg: no cleanup there
                    /\ ~too_large /\ failing = {}
                    /\ ffmpeg_outcome' = run
                    /\ disk' = disk \cup {chunk_path}
                    /\ result' = Surface(OtherException(run))
                    /\ pc' = "finally"
                    /\ UNCHANGED <<split_paths, chunk_paths, remove_failed>>
    /\ UNCHANGED <<openai_api_key, file_size, duration_seconds, poolVars>>
    /\ UNCHANGED <<transcript_response, storeVars, docVars, apiVars>>

\* lines 386-395: the finally clause of transcribe_audio
Finally ==
    /\ pc = "finally"
    /\ \E failing \in RemoveFailures(Range(chunk_paths) \cap disk) :
         /\ disk' = disk \ (Range(chunk_paths) \ failing)
         /\ remove_failed' = remove_failed \cup failing
    /\ pc' = "done"
    /\ UNCHANGED <<openai_api_key, file_size, duration_seconds, windows,
                   split_paths, chunk_paths, created, ffmpeg_outcome, poolVars,
                   result>>
    /\ UNCHANGED <<transcript_response, storeVars, docVars, apiVars>>

(***************************************************************************)
(* transcribe_chunks_parallel: the pool, as_completed, the slot list       *)
(***************************************************************************)
\* what is spoken in chunk k, as the speech-to-text service answers it: a
\* different word for every chunk, with surrounding blanks
ChunkReply(k) ==
    <<" ", <<"a", "b", "c", "d", "e", "f", "g", "h">>[k + 1], " ">>

\* answers for the whole file on the direct path, one of them blank
DirectTexts == {<<"a">>, <<" ", "b">>, <<" ">>}

\* the path of the uploaded audio file, as opposed to the chunk files 0, 1, ..
AudioPath == -1

NoFuture == [state |-> "none", chunk_index |-> 0, raw |-> <<>>, text |-> <<>>]

UnsetSlot == [set |-> FALSE, text |-> <<>>]

total_chunks == Len(chunk_paths)

ChunkIndices == 0..(total_chunks - 1)

Running == {k \in DOMAIN fut : fut[k].state = "running"}

Finished == {k \in DOMAIN fut : fut[k].state \in {"ok", "failed"}}

\* lines 263-269: the slot list and the executor
StartPool ==
    /\ pc = "pool_init"
    /\ transcripts' = [k \in ChunkIndices |-> UnsetSlot]
    /\ fut' = [k \in ChunkIndices |-> NoFuture]
    /\ pc' = "pool"
    /\ UNCHANGED <<openai_api_key, file_size, duration_seconds, windows, fileVars,
                   submitted, work_queue, stt_calls, completion, collector,
                   observed, pool_error, result>>
    /\ UNCHANGED <<transcript_response, storeVars, docVars, apiVars>>

\* lines 271-274: executor.submit(cls.transcribe_chunk, chunk_path, i, total)
Submit ==
    /\ pc = "pool"
    /\ submitted < total_chunks
    /\ LET i == submitted
       IN /\ work_queue' = Append(work_queue,
                              [path |-> chunk_paths[i + 1], chunk_index |-> i])
          /\ fut' = [fut EXCEPT ![i].state = "queued"]
    /\ submitted' = submitted + 1
    /\ UNCHANGED <<pc, openai_api_key, file_size, duration_seconds, windows,
                   fileVars, stt_calls, completion, collector, observed,
                   transcripts, pool_error, result>>
    /\ UNCHANGED <<transcript_response, storeVars, docVars, apiVars>>

\* ThreadPoolExecutor(max_workers=MAX_PARALLEL_TRANSCRIPTIONS): a queued call
\* starts only while fewer than max_workers calls are running
WorkerCanStart_Unbounded(running, total) == running < total

WorkerCanStart(running, total) == running < MAX_PARALLEL_TRANSCRIPTIONS

\* a future finishes: as_completed's waiter, once installed, records it
FutureDone(k, state, raw) ==
    /\ fut' = [fut EXCEPT ![k] = [state |-> state, chunk_index |-> k,
                                  raw |-> raw, text |-> Strip(raw)]]
    /\ completion' = Append(completion, k)
    /\ collector' =
         IF collector.started
         THEN [collector EXCEPT !.finished_futures = Append(@, k)]
         ELSE collector

\* a worker thread takes the next queued call: transcribe_chunk opens the chunk
\* file and calls the speech-to-text service (lines 234-242)
WorkerStart ==
    /\ pc \in {"pool", "pool_exit"}
    /\ work_queue # <<>>
    /\ WorkerCanStart(Cardinality(Running), total_chunks)
    /\ LET item == Head(work_queue)
       IN IF item.path \in disk
          THEN /\ fut' = [fut EXCEPT ![item.chunk_index].state = "running"]
               /\ stt_calls' = Append(stt_calls, item)
               /\ UNCHANGED <<completion, collector>>
          ELSE /\ FutureDone(item.chunk_index, "failed", <<>>)
               /\ UNCHANGED stt_calls
    /\ work_queue' = Tail(work_queue)
    /\ UNCHANGED <<pc, openai_api_key, file_size, duration_seconds, windows,
                   fileVars, submitted, observed, transcripts, pool_error, result>>
    /\ UNCHANGED <<transcript_response, storeVars, docVars, apiVars>>

\* the speech-to-text call of a running chunk returns or raises (lines 244-250)
WorkerFinish ==
    /\ pc \in {"pool", "pool_exit"}
    /\ \E k \in Running :
         \/ FutureDone(k, "ok", ChunkReply(k))
         \/ FutureDone(k, "failed", <<>>)
    /\ UNCHANGED <<pc, openai_api_key, file_size, duration_seconds, windows,
                   fileVars, submitted, work_queue, stt_calls, observed,
                   transcripts, pool_error, result>>
    /\ UNCHANGED <<transcript_response, storeVars, docVars, apiVars>>

\* as_completed(future_to_index) is entered: futures already finished are
\* yielded first, in no particular order (a set); the waiter is installed
CollectStart ==
    /\ pc = "pool"
    /\ submitted = total_chunks
    /\ ~collector.started
    /\ collector' = [started |-> TRUE, snapshot |-> Finished,
                     finished_futures |-> <<>>]
    /\ UNCHANGED <<pc, openai_api_key, file_size, duration_seconds, windows,
                   fileVars, submitted, work_queue, fut, stt_calls, completion,
                   observed, transcripts, pool_error, result>>
    /\ UNCHANGED <<transcript_response, storeVars, docVars, apiVars>>

\* the slot a collected result is written to
ResultSlot_ByArrival(chunk_index, arrival) == arrival

ResultSlot(chunk_index, arrival) == chunk_index

\* the except clause of the collection loop: a failed future raises
CollectorRaises_Never(state) == FALSE

CollectorRaises(state) == state = "failed"

\* one iteration of "for future in as_completed(...)" (lines 277-285)
CollectNext ==
    /\ pc = "pool"
    /\ collector.started
    /\ Len(observed) < total_chunks
    /\ LET early == collector.snapshot \ Range(observed)
       IN \E f \in ChunkIndices :
            /\ IF early # {}
               THEN f \in early /\ UNCHANGED collector
               ELSE /\ collector.finished_futures # <<>>
                    /\ f = Head(collector.finished_futures)
                    /\ collector' = [collector EXCEPT !.finished_futures = Tail(@)]
            /\ observed' = Append(observed, f)
            /\ IF CollectorRaises(fut[f].state)
               THEN /\ pool_error' = [raised |-> TRUE, chunk |-> f]
                    /\ pc' = "pool_exit"
                    /\ UNCHANGED transcripts
               ELSE /\ LET slot == ResultSlot(fut[f].chunk_index, Len(observed))
                       IN transcripts' =
                            [transcripts EXCEPT ![slot] =
                                [set |-> fut[f].state = "ok", text |-> fut[f].text]]
                    /\ pc' = IF Len(observed') = total_chunks THEN "pool_exit"
                                                             ELSE "pool"
                    /\ UNCHANGED pool_error
    /\ UNCHANGED <<openai_api_key, file_size, duration_seconds, windows, fileVars,
                   submitted, work_queue, fut, stt_calls, completion, result>>
    /\ UNCHANGED <<transcript_response, storeVars, docVars, apiVars>>

\* merge_overlapping_transcripts: " ".join(transcripts)
merge_overlapping_transcripts(slots) ==
    JoinSpace([k \in 1..Len(chunk_paths) |-> slots[k - 1].text])

\* Executor.__exit__: shutdown(wait=True) returns once the workers have
\* drained the queue and ended their calls
ShutdownReturns_WithoutWaiting(queue, running) == TRUE

ShutdownReturns(queue, running) == queue = <<>> /\ running = {}

\* the with block is left: shutdown(wait=True) joins the workers, which first
\* drain the queue; then the list is returned and merged (287-288, 351-355),
\* or the HTTPException of the loop propagates (282-285)
PoolExit ==
    /\ pc = "pool_exit"
    /\ ShutdownReturns(work_queue, Running)
    /\ result' =
         IF pool_error.raised
         THEN Surface(HTTPException(500, "Transcription failed"))
         ELSE IF \E k \in ChunkIndices : ~transcripts[k].set
         THEN Surface(OtherException("TypeError"))
         ELSE Returned(merge_overlapping_transcripts(transcripts))
    /\ pc' = "finally"
    /\ UNCHANGED <<openai_api_key, file_size, duration_seconds, windows, fileVars,
                   poolVars>>
    /\ UNCHANGED <<transcript_response, storeVars, docVars, apiVars>>

\* "if not transcript" (line 367)
EmptyTranscript_Never(transcript) == FALSE

EmptyTranscript(transcript) == transcript = <<>>

\* the answers of the whole-file speech-to-text call: a text, or an error
DirectReplies ==
    {[made |-> TRUE, ok |-> TRUE, text |-> raw] : raw \in DirectTexts}
    \cup {[made |-> TRUE, ok |-> FALSE, text |-> <<>>]}

\* lines 357-377: the direct path, one speech-to-text call for the whole file
Direct ==
    /\ pc = "direct"
    /\ stt_calls' = Append(stt_calls, [path |-> AudioPath, chunk_index |-> 0])
    /\ \E reply \in DirectReplies :
         /\ transcript_response' = reply
         /\ result' = IF ~reply.ok THEN Surface(OtherException("APIError"))
                      ELSE IF EmptyTranscript(Strip(reply.text))
                      THEN Surface(OtherException("ValueError"))
                      ELSE Returned(Strip(reply.text))
    /\ pc' = "finally"
    /\ UNCHANGED <<openai_api_key, file_size, duration_seconds, windows, fileVars,
                   submitted, work_queue, fut, completion, collector, observed,
                   transcripts, pool_error>>
    /\ UNCHANGED <<storeVars, docVars, apiVars>>

Next ==
    \/ Validate
    \/ CheckFfmpeg
    \/ SplitChunk
    \/ StartPool
    \/ Submit
    \/ WorkerStart
    \/ WorkerFinish
    \/ CollectStart
    \/ CollectNext
    \/ PoolExit
    \/ Direct
    \/ Finally

Spec == Init /\ [][Next]_vars

(***************************************************************************)
(* VectorStoreService: collection names                                    *)
(***************************************************************************)
\* the letters and digits of the modelled alphabet (str.isalnum)
AlnumChars == {"a", "b", "c"}

SanitizeChar(c) == IF c \in AlnumChars \/ c \in {"-", "_"} THEN c ELSE "_"

\* s[:n]
Take(s, n) == SubSeq(s, 1, Min(n, Len(s)))

Invalid == [ok |-> FALSE, value |-> <<>>]

\* _sanitize_user_id: the sanitized id, or ValueError (ok = FALSE)
_sanitize_user_id(user_id) ==
    IF user_id = <<>> \/ Strip(user_id) = <<>> THEN Invalid
    ELSE LET safe_id == Take([k \in 1..Len(user_id) |-> SanitizeChar(user_id[k])],
                             SAFE_ID_MAX_LENGTH)
         IN IF safe_id = <<>> THEN Invalid ELSE [ok |-> TRUE, value |-> safe_id]

\* _get_collection_name: f"user_{safe_user_id}_meetings"
_get_collection_name(user_id) ==
    LET safe == _sanitize_user_id(user_id)
    IN IF safe.ok
       THEN [ok |-> TRUE, value |-> <<"user_">> \o safe.value \o <<"_meetings">>]
       ELSE Invalid

(***************************************************************************)
(* VectorStoreService: the fragments of one meeting                        *)
(***************************************************************************)
DOC_TYPE_TRANSCRIPT == "transcript"

DOC_TYPE_SUMMARY == "summary"

DOC_TYPE_DECISION == "decision"

DOC_TYPE_ACTION_ITEM == "action_item"

DOC_TYPE_KEY_POINT == "key_point"

\* add_doc called without an index
NoIndex == -1

\* str(index) for the indices of the model
IntStr(i) == <<"0", "1", "2", "3", "4", "5", "6", "7", "8", "9">>[i + 1]

\* add_doc: f"{meeting_id}_{doc_type}{id_suffix}"
FragmentId_NoIndex(meeting_id, doc_type, index) == <<meeting_id, "_", doc_type>>

FragmentId(meeting_id, doc_type, index) ==
    <<meeting_id, "_", doc_type>>
        \o (IF index # NoIndex THEN <<"_", IntStr(index)>> ELSE <<>>)

\* add_doc: the document, its metadata and its id; the metadata carries
\* chunk_index = str(index) only when an index was given (<<>>: key absent)
add_doc(meeting_id, content, doc_type, index) ==
    [id |-> FragmentId(meeting_id, doc_type, index), content |-> content,
     meeting_id |-> meeting_id, type |-> doc_type,
     chunk_index |-> IF index # NoIndex THEN <<IntStr(index)>> ELSE <<>>]

\* "for i, x in enumerate(items): add_doc(x, doc_type, i)"
AddAll(meeting_id, items, doc_type) ==
    [k \in 1..Len(items) |-> add_doc(meeting_id, items[k], doc_type, k - 1)]

\* _prepare_documents, given the chunks the text splitter cut the transcript into
_prepare_documents(meeting_id, chunks, summary, decisions, action_items, key_points) ==
    AddAll(meeting_id, chunks, DOC_TYPE_TRANSCRIPT)
        \o <<add_doc(meeting_id, summary, DOC_TYPE_SUMMARY, NoIndex)>>
        \o AddAll(meeting_id, decisions, DOC_TYPE_DECISION)
        \o AddAll(meeting_id, action_items, DOC_TYPE_ACTION_ITEM)
        \o AddAll(meeting_id, key_points, DOC_TYPE_KEY_POINT)

\* the batch of an index_meeting call whose texts all read "version" and whose
\* three lists have n entries (the transcript is cut into n + 1 chunks)
Batch(meeting_id, version, n) ==
    _prepare_documents(meeting_id, [k \in 1..(n + 1) |-> version], version,
                       [k \in 1..n |-> version], [k \in 1..n |-> version],
                       [k \in 1..n |-> version])

(***************************************************************************)
(* The remote vector store                                                 *)
(***************************************************************************)
\* user ids: one with a character outside [A-Za-z0-9_-], one without, and a
\* blank one
UserIds == {<<"a", ".", "b">>, <<"a", "_", "b">>, <<" ">>}

MeetingIds == {"m1"}

\* lengths of the decisions, action_items and key_points lists
ListLengths == {0, 1}

\* values of top_k
TopKs == {1, 2}

\* a remote call answers normally, answers with an error status, fails in
\* transport (httpx.HTTPError), or answers with a success status and a body
\* that cannot be read (response.json()["id"] raises)
Faults == {"none", "status", "transport", "malformed"}

\* the faults of a call whose response body is not read
StatusFaults == Faults \ {"malformed"}

CollectionNamed(name) == {c \in collections : c.name = name}

IdOf(name) == (CHOOSE c \in collections : c.name = name).id

\* create-collection as applied by the store: names are unique
StoreCreate(name) ==
    collections \cup {[name |-> name, id |-> Cardinality(collections) + 1]}

\* batch-add as applied by the store: a record whose id is already stored in
\* the collection is either left as it is or replaced
StoreAdd(collection_id, batch, replace, user_id) ==
    LET stored_ids == {f.id : f \in {g \in fragments : g.collection = collection_id}}
        batch_ids == {batch[k].id : k \in 1..Len(batch)}
        kept == IF replace
                THEN {f \in fragments :
                        ~(f.collection = collection_id /\ f.id \in batch_ids)}
                ELSE fragments
        added == {[collection |-> collection_id, id |-> batch[k].id,
                   content |-> batch[k].content,
                   meeting_id |-> batch[k].meeting_id, type |-> batch[k].type,
                   chunk_index |-> batch[k].chunk_index, indexed_by |-> user_id]
                  : k \in {j \in 1..Len(batch) :
                             replace \/ batch[j].id \notin stored_ids}}
    IN kept \cup added

\* nearest-neighbour query: any ranking of min(top_k, size) records of the
\* collection
Rankings(collection_id, top_k) ==
    LET members == {f \in fragments : f.collection = collection_id}
        k == Min(top_k, Cardinality(members))
    IN {s \in [1..k -> members] : \A a, b \in 1..k : a # b => s[a] # s[b]}

(***************************************************************************)
(* VectorStoreService: index_meeting, search, delete_meeting               *)
(***************************************************************************)
pipelineAllVars == <<duration_seconds, windows, pipelineVars>>

InitStore ==
    /\ duration_seconds = 0
    /\ windows = <<>>
    /\ PipelineIdle
    /\ StoreIdle
    /\ DocsIdle
    /\ ApiIdle

Busy(r) == req[r].pc # "done"

\* a new call begins in request r, the first request that is free
Begin(r, call) ==
    /\ ~Busy(r)
    /\ \A other \in Requests : other < r => Busy(other)
    /\ ops_started < MaxOps
    /\ ops_started' = ops_started + 1
    /\ overlapped' = (overlapped \/ \E other \in Requests \ {r} : Busy(other))
    /\ req' = [req EXCEPT ![r] = call]

\* a remote call is made, with the given fault
Inject(fault) ==
    /\ fault # "none" => faults < MaxFaults
    /\ faults' = IF fault # "none" THEN faults + 1 ELSE faults

\* the except clauses of index_meeting (lines 230-235)
IndexSurface_AlwaysVectorStoreError(type) == "VectorStoreError"

IndexSurface(type) ==
    IF type \in {"CollectionError", "EmbeddingError"} THEN type
    ELSE "VectorStoreError"

\* index_meeting is called (lines 188-192)
StartIndex ==
    /\ \E r \in Requests, u \in UserIds, m \in MeetingIds, n \in ListLengths :
         LET name == _get_collection_name(u)
             \* the texts of the k-th call of a behaviour all read k
             call == [IdleRequest EXCEPT !.op = "index", !.user_id = u,
                        !.meeting_id = m, !.version = ops_started + 1, !.n = n]
         IN Begin(r, IF name.ok
                     THEN [call EXCEPT !.pc = "goc_get",
                                       !.collection_name = name.value]
                     ELSE [call EXCEPT !.exc = IndexSurface("ValueError")])
    /\ UNCHANGED <<collections, fragments, faults, index_log, pipelineAllVars,
                   docVars, apiVars>>

\* the except clauses of _get_or_create_collection (lines 156-161): an
\* httpx.HTTPError and any other exception both leave as CollectionError
GocBodyRaises(type) ==
    IF type = "HTTPError" THEN "CollectionError" ELSE "CollectionError"

\* retry=retry_if_exception_type(httpx.HTTPError)
RetryPredicate_AnyException(type) == TRUE

RetryPredicate(type) == type = "HTTPError"

\* the body of _get_or_create_collection raised: the @retry wrapper (106-110)
\* runs the body again or lets the exception reach index_meeting
GocAfterException(rq, type, cause) ==
    LET raised == GocBodyRaises(type)
    IN IF RetryPredicate(raised) /\ rq.attempts < MAX_PROVISION_ATTEMPTS
       THEN [rq EXCEPT !.pc = "goc_get"]
       ELSE [rq EXCEPT !.pc = "done", !.cause = cause,
                       !.exc = IndexSurface(IF RetryPredicate(raised)
                                            THEN "RetryError" ELSE raised)]

\* one attempt begins: the get-collection request (lines 124-134)
GocGet ==
    /\ \E r \in Requests, fault \in Faults :
         /\ req[r].pc = "goc_get"
         /\ Inject(fault)
         /\ LET rq == Called([req[r] EXCEPT !.attempts = @ + 1], "get", fault)
                name == rq.collection_name
            IN req' = [req EXCEPT ![r] =
                 IF fault = "transport" THEN GocAfterException(rq, "HTTPError", fault)
                 ELSE IF fault = "malformed"
                 THEN GocAfterException(rq, "KeyError", fault)
                 ELSE IF fault = "none" /\ CollectionNamed(name) # {}
                 THEN [rq EXCEPT !.pc = "embed", !.collection_id = IdOf(name)]
                 ELSE [rq EXCEPT !.pc = "goc_create"]]
    /\ UNCHANGED <<collections, fragments, ops_started, index_log, overlapped,
                   pipelineAllVars,
                   docVars, apiVars>>

\* the create-collection request (lines 136-154)
GocCreate ==
    /\ \E r \in Requests, fault \in Faults, applied \in BOOLEAN :
         /\ req[r].pc = "goc_create"
         /\ Inject(fault)
         /\ LET name == req[r].collection_name
                fresh == CollectionNamed(name) = {}
                rq == Called(req[r], "create",
                             IF fault = "none" /\ ~fresh THEN "conflict" ELSE fault)
            IN \* the store creates the collection only under a name that is
               \* free; a request lost in transport may or may not be applied
               /\ applied => (fresh /\ fault # "status")
               /\ (fresh /\ fault = "none") => applied
               /\ fault = "malformed" => applied
               /\ collections' = IF applied THEN StoreCreate(name) ELSE collections
               /\ req' = [req EXCEPT ![r] =
                    IF fault = "transport"
                    THEN GocAfterException(rq, "HTTPError", fault)
                    ELSE IF fault = "malformed"
                    THEN GocAfterException(rq, "KeyError", fault)
                    ELSE IF applied
                    THEN [rq EXCEPT !.pc = "embed",
                                    !.collection_id = Cardinality(collections) + 1]
                    ELSE GocAfterException(rq, "CollectionError",
                             IF fault = "none" THEN "conflict" ELSE fault)]
    /\ UNCHANGED <<fragments, ops_started, index_log, overlapped, pipelineAllVars,
                   docVars, apiVars>>

\* where index_meeting goes after embed_documents: on to the batch-add, or
\* out by "raise EmbeddingError" (lines 203-207)
AfterEmbed_AddAnyway(ok) == "add"

AfterEmbed(ok) == IF ok THEN "add" ELSE "done"

\* embed_documents on the whole batch (lines 195-207)
EmbedDocuments ==
    /\ \E r \in Requests, ok \in BOOLEAN :
         /\ req[r].pc = "embed"
         /\ Inject(IF ok THEN "none" ELSE "status")
         /\ LET rq == Called(req[r], "embed", IF ok THEN "none" ELSE "status")
            IN req' = [req EXCEPT ![r] =
                 IF ok THEN [rq EXCEPT !.pc = AfterEmbed(TRUE)]
                 ELSE [rq EXCEPT !.pc = AfterEmbed(FALSE), !.cause = "embedding",
                                 !.exc = IndexSurface("EmbeddingError")]]
    /\ UNCHANGED <<collections, fragments, ops_started, index_log, overlapped,
                   pipelineAllVars,
                   docVars, apiVars>>

\* the batch-add request and the end of index_meeting (lines 209-235)
AddDocuments ==
    /\ \E r \in Requests, fault \in StatusFaults, applied \in BOOLEAN,
          replace \in BOOLEAN :
         /\ req[r].pc = "add"
         /\ Inject(fault)
         \* a request lost in transport may or may not have been applied
         /\ applied => fault # "status"
         /\ fault = "none" => applied
         /\ replace => applied
         /\ LET rq == Called(req[r], "add", fault)
                batch == Batch(rq.meeting_id, rq.version, rq.n)
            IN /\ fragments' =
                    IF applied
                    THEN StoreAdd(rq.collection_id, batch, replace, rq.user_id)
                    ELSE fragments
               /\ req' = [req EXCEPT ![r] =
                    IF fault = "none"
                    THEN [rq EXCEPT !.pc = "done", !.add_requests = @ + 1]
                    ELSE [rq EXCEPT !.pc = "done", !.add_requests = @ + 1,
                                    !.cause = fault,
                                    !.exc = IndexSurface(IF fault = "transport"
                                                         THEN "HTTPError"
                                                         ELSE "VectorStoreError")]]
               /\ index_log' = IF fault = "none"
                               THEN Append(index_log,
                                      [user_id |-> rq.user_id,
                                       meeting_id |-> rq.meeting_id,
                                       version |-> rq.version, n |-> rq.n])
                               ELSE index_log
    /\ UNCHANGED <<collections, ops_started, overlapped, pipelineAllVars,
                   docVars, apiVars>>

\* search is called (lines 316-322)
SearchCall(u, k) ==
    LET name == _get_collection_name(u)
        call == [IdleRequest EXCEPT !.op = "search", !.user_id = u, !.top_k = k]
    IN IF name.ok
       THEN [call EXCEPT !.pc = "search_get", !.collection_name = name.value]
       ELSE [call EXCEPT !.cause = "ValueError"]

StartSearch ==
    /\ \E r \in Requests, u \in UserIds, k \in TopKs : Begin(r, SearchCall(u, k))
    /\ UNCHANGED <<collections, fragments, faults, index_log, pipelineAllVars,
                   docVars, apiVars>>

\* search: the get-collection request (lines 324-334)
SearchGet ==
    /\ \E r \in Requests, fault \in Faults :
         /\ req[r].pc = "search_get"
         /\ Inject(fault)
         /\ LET name == req[r].collection_name
                rq == Called(req[r], "get", fault)
            IN req' = [req EXCEPT ![r] =
                 IF fault = "none" /\ CollectionNamed(name) # {}
                 THEN [rq EXCEPT !.pc = "search_embed", !.collection_id = IdOf(name)]
                 ELSE [rq EXCEPT !.pc = "done", !.cause = fault]]
    /\ UNCHANGED <<collections, fragments, ops_started, index_log, overlapped,
                   pipelineAllVars,
                   docVars, apiVars>>

\* search: embed_query (lines 336-341, 363-365)
SearchEmbed ==
    /\ \E r \in Requests, ok \in BOOLEAN :
         /\ req[r].pc = "search_embed"
         /\ Inject(IF ok THEN "none" ELSE "status")
         /\ LET rq == Called(req[r], "embed", IF ok THEN "none" ELSE "status")
            IN req' = [req EXCEPT ![r] =
                 IF ok THEN [rq EXCEPT !.pc = "search_query"]
                 ELSE [rq EXCEPT !.pc = "done", !.cause = "embedding",
                                 !.exc = "EmbeddingError"]]
    /\ UNCHANGED <<collections, fragments, ops_started, index_log, overlapped,
                   pipelineAllVars,
                   docVars, apiVars>>

\* search: the query request and _format_search_results (lines 343-368)
SearchQuery ==
    /\ \E r \in Requests, fault \in Faults :
         /\ req[r].pc = "search_query"
         /\ Inject(fault)
         /\ \E ranking \in Rankings(req[r].collection_id, req[r].top_k) :
              /\ fault # "none" => ranking = <<>>
              /\ req' = [req EXCEPT ![r] =
                      [Called(@, "query", fault) EXCEPT
                          !.pc = "done", !.cause = fault,
                          !.results = IF fault = "none" THEN ranking ELSE <<>>]]
    /\ UNCHANGED <<collections, fragments, ops_started, index_log, overlapped,
                   pipelineAllVars,
                   docVars, apiVars>>

\* delete_meeting is called (lines 398-401)
StartDelete ==
    /\ \E r \in Requests, u \in UserIds, m \in MeetingIds :
         LET name == _get_collection_name(u)
             call == [IdleRequest EXCEPT !.op = "delete", !.user_id = u,
                        !.meeting_id = m]
         IN Begin(r, IF name.ok
                     THEN [call EXCEPT !.pc = "delete_get",
                                       !.collection_name = name.value]
                     ELSE [call EXCEPT !.cause = "ValueError"])
    /\ UNCHANGED <<collections, fragments, faults, index_log, pipelineAllVars,
                   docVars, apiVars>>

\* delete_meeting: the get-collection request (lines 403-413)
DeleteGet ==
    /\ \E r \in Requests, fault \in Faults :
         /\ req[r].pc = "delete_get"
         /\ Inject(fault)
         /\ LET name == req[r].collection_name
                rq == Called(req[r], "get", fault)
            IN req' = [req EXCEPT ![r] =
                 IF fault = "none" /\ CollectionNamed(name) # {}
                 THEN [rq EXCEPT !.pc = "delete_docs", !.collection_id = IdOf(name)]
                 ELSE [rq EXCEPT !.pc = "done", !.cause = fault]]
    /\ UNCHANGED <<collections, fragments, ops_started, index_log, overlapped,
                   pipelineAllVars,
                   docVars, apiVars>>

\* delete_meeting: the delete request, where = {"meeting_id": meeting_id}
\* (lines 415-431)
DeleteDocuments ==
    /\ \E r \in Requests, fault \in StatusFaults, applied \in BOOLEAN :
         /\ req[r].pc = "delete_docs"
         /\ Inject(fault)
         /\ applied => fault # "status"
         /\ fault = "none" => applied
         /\ fragments' =
              IF applied
              THEN {f \in fragments : ~(f.collection = req[r].collection_id
                                        /\ f.meeting_id = req[r].meeting_id)}
              ELSE fragments
         /\ req' = [req EXCEPT ![r] =
                 [Called(@, "delete", fault) EXCEPT !.pc = "done", !.cause = fault]]
    /\ UNCHANGED <<collections, ops_started, index_log, overlapped, pipelineAllVars,
                   docVars, apiVars>>

NextStore ==
    \/ StartIndex
    \/ GocGet
    \/ GocCreate
    \/ EmbedDocuments
    \/ AddDocuments
    \/ StartSearch
    \/ SearchGet
    \/ SearchEmbed
    \/ SearchQuery
    \/ StartDelete
    \/ DeleteGet
    \/ DeleteDocuments

SpecStore == InitStore /\ [][NextStore]_vars


(***************************************************************************)
(* RAGService.query_meetings and the query endpoint                        *)
(***************************************************************************)
MAX_SNIPPET_LENGTH == 200

MAX_CONTEXT_SNIPPETS == 3

NO_DATA_ANSWER == "I don't have any meeting data to answer this question. Please upload some meetings first."

\* the text the language model returned
GENERATED_ANSWER == "response.content"

\* _format_search_results: one document per returned record, in the order of
\* the reply, with the distance the store reported for it
_format_search_results(ranking, distances) ==
    [i \in DOMAIN ranking |->
        [content |-> ranking[i].content, meeting_id |-> ranking[i].meeting_id,
         type |-> ranking[i].type, distance |-> distances[i]]]

\* the records of a reply with their text written out: the text of version v
\* reads "v"
Written(ranking) ==
    [i \in DOMAIN ranking |-> [ranking[i] EXCEPT !.content = <<IntStr(@)>>]]

Ellipsis == <<".", ".", ".">>

\* snippet[:MAX_SNIPPET_LENGTH] + "..." when the text is longer
Snippet_CutAtLimit(content) ==
    IF Len(content) >= MAX_SNIPPET_LENGTH
    THEN SubSeq(content, 1, MAX_SNIPPET_LENGTH) \o Ellipsis
    ELSE content

Snippet(content) ==
    IF Len(content) > MAX_SNIPPET_LENGTH
    THEN SubSeq(content, 1, MAX_SNIPPET_LENGTH) \o Ellipsis
    ELSE content

\* 1.0 - doc.get('distance', 0)
relevance_score(doc) == 1 - doc.distance

\* for doc in context_docs[:MAX_CONTEXT_SNIPPETS]
_format_context_snippets(context_docs) ==
    [i \in 1..Min(Len(context_docs), MAX_CONTEXT_SNIPPETS) |->
        [type |-> context_docs[i].type,
         meeting_id |-> context_docs[i].meeting_id,
         snippet |-> Snippet(context_docs[i].content),
         relevance_score |-> relevance_score(context_docs[i])]]

\* [doc['metadata']['meeting_id'] for doc in context_docs]
MeetingIdsOf_TopSnippets(context_docs) ==
    [i \in 1..Min(Len(context_docs), MAX_CONTEXT_SNIPPETS) |->
        context_docs[i].meeting_id]

MeetingIdsOf(context_docs) ==
    [i \in 1..Len(context_docs) |-> context_docs[i].meeting_id]

\* list(set(ids)): every id once, in an order the set decides
source_meetings(ids) ==
    LET S == Range(ids)
    IN {s \in [1..Cardinality(S) -> S] :
          \A a, b \in 1..Cardinality(S) : a # b => s[a] # s[b]}

\* what the endpoint sends: a QueryResponse, or an HTTPException
Answered(answer, sources, context_used) ==
    [status |-> 200, detail |-> "", answer |-> answer, sources |-> sources,
     context_used |-> context_used]

HTTPError(status, detail) ==
    [status |-> status, detail |-> detail, answer |-> "", sources |-> <<>>,
     context_used |-> <<>>]

\* query_meetings when search returned no document
NoDataResult == Answered(NO_DATA_ANSWER, <<>>, <<>>)

\* ContextSnippet.relevance_score: Field(..., ge=0, le=1)
SchemaValid(query_result) ==
    \A i \in 1..Len(query_result.context_used) :
        /\ 0 <= query_result.context_used[i].relevance_score
        /\ query_result.context_used[i].relevance_score <= 1

\* the except clauses of the endpoint
EndpointMaps_EmbeddingAs500(exc) ==
    CASE exc = "ValueError" -> HTTPError(400, "Invalid request")
      [] exc = "VectorStoreError" ->
            HTTPError(503, "Vector store unavailable. Please try again later.")
      [] OTHER ->
            HTTPError(500, "Internal server error. Please try again later.")

EndpointMaps(exc) ==
    CASE exc = "ValueError" -> HTTPError(400, "Invalid request")
      [] exc = "EmbeddingError" ->
            HTTPError(503, "Embedding service unavailable. Please try again later.")
      [] exc = "VectorStoreError" ->
            HTTPError(503, "Vector store unavailable. Please try again later.")
      [] OTHER ->
            HTTPError(500, "Internal server error. Please try again later.")

\* return QueryResponse(**result): a result the schema rejects raises
\* pydantic's ValidationError, which is a ValueError
Respond(query_result) ==
    IF SchemaValid(query_result) THEN query_result
    ELSE EndpointMaps("ValueError")

\* "if not context_docs": the language model is asked only about documents
NeedsAnswer_Always(context_docs) == TRUE

NeedsAnswer(context_docs) == context_docs # <<>>

\* the questions asked
Queries == {<<"q">>, <<" ">>}

\* the distances a reply may carry: squared L2, the metric of a collection
\* created without "hnsw:space"
StoreDistances == {0, 1, 2}

\* the distances of a reply of n records: smallest first
DistancesOf(n) ==
    {ds \in [1..n -> StoreDistances] :
        \A a, b \in 1..n : a < b => ds[a] <= ds[b]}

\* the request slot in which a query's search runs
QuerySlot == 1

\* the endpoint receives a query: query_meetings validates it and calls search
\* (rag_service.py lines 64-74)
StartQuery ==
    /\ rag.pc = "idle"
    /\ \E u \in UserIds, q \in Queries, k \in TopKs :
         LET call == [IdleQuery EXCEPT !.user_id = u, !.query = q, !.top_k = k]
         IN IF Strip(u) = <<>> \/ Strip(q) = <<>>
            THEN /\ rag' = [call EXCEPT !.pc = "done", !.exc = "ValueError",
                                        !.response = EndpointMaps("ValueError")]
                 /\ UNCHANGED <<req, ops_started, overlapped>>
            ELSE /\ rag' = [call EXCEPT !.pc = "search"]
                 /\ Begin(QuerySlot, SearchCall(u, k))
    /\ UNCHANGED <<collections, fragments, faults, index_log, pipelineAllVars,
                   docVars, meetingVars, singletonVars>>

\* search hands its documents, or its EmbeddingError, to query_meetings
\* (rag_service.py line 74)
SearchReturns ==
    /\ rag.pc = "search"
    /\ req[QuerySlot].op = "search"
    /\ req[QuerySlot].pc = "done"
    /\ LET n == Cardinality(DOMAIN req[QuerySlot].results)
       IN \E distances \in DistancesOf(n) :
            rag' = IF req[QuerySlot].exc # "none"
                   THEN [rag EXCEPT !.pc = "done", !.exc = req[QuerySlot].exc,
                                    !.response = EndpointMaps(req[QuerySlot].exc)]
                   ELSE [rag EXCEPT !.pc = "searched",
                            !.context_docs =
                               _format_search_results(
                                  Written(req[QuerySlot].results), distances)]
    /\ UNCHANGED <<storeVars, pipelineAllVars, docVars, meetingVars, singletonVars>>

\* query_meetings after search: the fixed answer when there is no document,
\* else _build_context, _generate_answer, the sources and the snippets; then
\* the endpoint builds the QueryResponse (rag_service.py lines 76-119,
\* routers/rag.py lines 67-110)
Answer ==
    /\ rag.pc = "searched"
    /\ IF ~NeedsAnswer(rag.context_docs)
       THEN /\ rag' = [rag EXCEPT !.pc = "done", !.returned = NoDataResult,
                                   !.response = Respond(NoDataResult)]
            /\ UNCHANGED faults
       ELSE \E ok \in BOOLEAN :
              /\ Inject(IF ok THEN "none" ELSE "status")
              /\ \E sources \in source_meetings(MeetingIdsOf(rag.context_docs)) :
                   rag' = IF ok
                          THEN LET answered ==
                                     Answered(GENERATED_ANSWER, sources,
                                        _format_context_snippets(rag.context_docs))
                               IN [rag EXCEPT !.pc = "done",
                                      !.llm_calls = @ + 1,
                                      !.returned = answered,
                                      !.response = Respond(answered)]
                          ELSE [rag EXCEPT !.pc = "done",
                                  !.llm_calls = @ + 1,
                                  !.exc = "RuntimeError",
                                  !.response = EndpointMaps("RuntimeError")]
    /\ UNCHANGED <<collections, fragments, req, ops_started, index_log,
                   overlapped, pipelineAllVars, docVars, meetingVars, singletonVars>>

\* the store a query meets: empty, or holding the collection of one user with
\* the records of one index_meeting call
SeededStores ==
    {[collections |-> {}, fragments |-> {}]}
    \cup
    {[collections |-> {[name |-> _get_collection_name(u).value, id |-> 1]},
      fragments |->
         {[collection |-> 1, id |-> doc.id, content |-> doc.content,
           meeting_id |-> doc.meeting_id, type |-> doc.type,
           chunk_index |-> doc.chunk_index, indexed_by |-> u]
          : doc \in Range(Batch(m, 1, n))}]
     : u \in {v \in UserIds : _get_collection_name(v).ok},
       m \in MeetingIds, n \in ListLengths}

InitQuery ==
    /\ duration_seconds = 0
    /\ windows = <<>>
    /\ PipelineIdle
    /\ DocsIdle
    /\ ApiIdle
    /\ \E store \in SeededStores :
         /\ collections = store.collections
         /\ fragments = store.fragments
    /\ req = [r \in Requests |-> IdleRequest]
    /\ ops_started = 0
    /\ faults = 0
    /\ index_log = <<>>
    /\ overlapped = FALSE

NextQuery ==
    \/ StartQuery
    \/ SearchGet
    \/ SearchEmbed
    \/ SearchQuery
    \/ SearchReturns
    \/ Answer

SpecQuery == InitQuery /\ [][NextQuery]_vars

(***************************************************************************)
(* Properties of the transcription pipeline (checked under Spec)           *)
(***************************************************************************)
\* transcribe_chunks_parallel has been left (returned or raised)
PoolLeft == pc \in {"finally", "done"} /\ fut # <<>>

\* the text the speech-to-text service answered for chunk k, stripped
ChunkText(k) == Strip(fut[k].raw)

FailedChunks == {k \in DOMAIN fut : fut[k].state = "failed"}

\* position of chunk k in a sequence of chunk indices
PositionIn(order, k) == CHOOSE p \in 1..Len(order) : order[p] = k

\* C1: when every transcription call succeeds, whatever the completion order,
\* slot i of the returned list holds the text of chunk i, no slot is unset, and
\* the transcript returned is those texts joined by single spaces in chunk order.
C1_OrderedReassembly ==
    (PoolLeft /\ FailedChunks = {}) =>
        /\ \A k \in ChunkIndices :
              transcripts[k].set /\ transcripts[k].text = ChunkText(k)
        /\ result.kind = "returned"
        /\ result.text = JoinSpace([p \in 1..total_chunks |-> ChunkText(p - 1)])

\* three chunks completing and collected in the order C, A, B with different
\* texts, and the transcript returned
C1_Witness ==
    /\ PoolLeft
    /\ result.kind = "returned"
    /\ observed = <<2, 0, 1>>
    /\ completion = <<2, 0, 1>>
    /\ ChunkText(0) # ChunkText(1)

\* C2: when transcribe_audio has returned or raised, no temporary chunk file
\* created by the invocation is left on disk (a file whose own removal failed
\* is not counted).
C2_NoChunkFileLeft ==
    pc = "done" => (created \cap disk) \ remove_failed = {}

\* C9 (as claimed): if any chunk's call failed, transcribe_audio raises 500
\* "Transcription failed", returns no transcript, and the failure surfaced is
\* the failed call that completed first.
C9_FirstFailureInCompletionOrder ==
    (PoolLeft /\ FailedChunks # {}) =>
        /\ result = Raised(500, "Transcription failed")
        /\ pool_error.raised
        /\ \A k \in FailedChunks :
              PositionIn(completion, pool_error.chunk) <= PositionIn(completion, k)

\* C9: if any chunk's call failed, transcribe_audio raises 500 "Transcription
\* failed", returns no transcript, and the failure surfaced is the first failed
\* call in the order in which as_completed handed the calls to the loop.
C9_FirstFailureObserved ==
    (PoolLeft /\ FailedChunks # {}) =>
        /\ result = Raised(500, "Transcription failed")
        /\ pool_error.raised
        /\ pool_error.chunk \in FailedChunks
        /\ observed[Len(observed)] = pool_error.chunk
        /\ \A p \in 1..(Len(observed) - 1) : observed[p] \notin FailedChunks

\* a later chunk fails after an earlier chunk succeeded and was collected
C9_Witness ==
    /\ pc = "done"
    /\ result = Raised(500, "Transcription failed")
    /\ transcripts[0].set
    /\ pool_error.chunk = 2
    /\ Cardinality(FailedChunks) = 2

\* C10: never more than 3 speech-to-text calls are running; no chunk is sent
\* twice; every call carries the file and the index of the same chunk; and once
\* the pool is left every chunk has been sent.
C10_BoundedPoolOneCallPerChunk ==
    /\ Cardinality(Running) <= MAX_PARALLEL_TRANSCRIPTIONS
    /\ \A a, b \in 1..Len(stt_calls) :
          (a # b /\ stt_calls[a].path # AudioPath)
              => stt_calls[a].chunk_index # stt_calls[b].chunk_index
    /\ \A a \in 1..Len(stt_calls) :
          stt_calls[a].path # AudioPath
              => /\ stt_calls[a].chunk_index \in ChunkIndices
                 /\ stt_calls[a].path = chunk_paths[stt_calls[a].chunk_index + 1]
    /\ PoolLeft =>
          \A k \in ChunkIndices : \E a \in 1..Len(stt_calls) :
              stt_calls[a].chunk_index = k /\ stt_calls[a].path = chunk_paths[k + 1]

\* three calls running while a fourth chunk waits in the queue
C10_Witness ==
    /\ Cardinality(Running) = MAX_PARALLEL_TRANSCRIPTIONS
    /\ work_queue # <<>>

\* transcribe_audio made the single speech-to-text call for the whole file
DirectCallMade == \E a \in 1..Len(stt_calls) : stt_calls[a].path = AudioPath

\* transcribe_audio is on, or went through, the direct path
OnDirectPath == pc = "direct" \/ DirectCallMade

\* transcribe_audio is on, or went through, the chunked path
OnChunkedPath ==
    \/ pc \in {"check_ffmpeg", "split", "pool_init", "pool", "pool_exit"}
    \/ windows # <<>>
    \/ fut # <<>>

\* C11: a validated file goes the direct path, with no window computed, no
\* chunk file created and no chunk call made, only if its size is at most
\* 25 MB, and it goes the chunked path, with no whole-file call, only if its
\* size is larger; a file of exactly 25 MB therefore never goes the chunked
\* path and a file one byte larger never the direct one.
C11_DirectPathIffWithinLimit ==
    /\ OnDirectPath =>
          /\ file_size <= MAX_FILE_SIZE
          /\ windows = <<>> /\ created = {} /\ fut = <<>>
          /\ ffmpeg_outcome = "none"
    /\ OnChunkedPath => (file_size > MAX_FILE_SIZE /\ ~DirectCallMade)
    /\ (pc \notin {"start", "finally", "done"}) => (OnDirectPath \/ OnChunkedPath)

\* a file of exactly 25 MB was transcribed in one call
C11_Witness ==
    /\ pc = "done"
    /\ file_size = MAX_FILE_SIZE
    /\ DirectCallMade
    /\ result.kind = "returned"

\* C12: a duration above 120 minutes is rejected with 413 before any
\* speech-to-text call and before any chunk file is created, and a duration
\* of at most 120 minutes (exactly 120 included) is never rejected as too long.
C12_TooLongRejectedBeforeAnyCall ==
    /\ duration_seconds > MAX_DURATION_MINUTES * 60 =>
          /\ pc \in {"finally", "done"}
          /\ result = Raised(413, "Audio too long")
          /\ stt_calls = <<>>
          /\ created = {} /\ disk = {}
    /\ (pc # "start" /\ duration_seconds = MAX_DURATION_MINUTES * 60) =>
          pc \in {"direct", "finally", "done"} /\ result.detail # "Audio too long"
    /\ result.detail = "Audio too long" =>
          duration_seconds > MAX_DURATION_MINUTES * 60

\* a file of 120 minutes and one second was rejected
C12_Witness ==
    /\ pc = "done"
    /\ duration_seconds = MAX_DURATION_MINUTES * 60 + 1
    /\ result = Raised(413, "Audio too long")

\* the Segmenter was left by an exception
SplitFailed == pc \in {"finally", "done"} /\ ffmpeg_outcome \notin {"none", "ok"}

\* the chunk files of this invocation still on disk, not counting a file
\* whose own removal failed
ChunkFilesLeft == (created \cap disk) \ remove_failed

\* C13: when a produced chunk exceeds 25 MB the Segmenter produces no later
\* chunk, no chunk file of the call is left, and the caller gets
\* HTTP 413 "chunk too large".
C13_OversizedChunkFailsFast ==
    (SplitFailed /\ ffmpeg_outcome = "too_large") =>
        /\ Len(windows) = Len(split_paths) + 1
        /\ created = Range(split_paths) \cup {Len(split_paths)}
        /\ ChunkFilesLeft = {}
        /\ fut = <<>>
        /\ result = Raised(413, "Chunk too large")

\* C14: when the decoding tool fails on a chunk (non-zero exit, timeout, tool
\* not found) the segmentation is abandoned, no chunk file of the call is
\* left, and the caller gets the split failure.
C14_ToolFailureAbortsAndCleansUp ==
    (SplitFailed /\ ffmpeg_outcome # "too_large") =>
        /\ Len(windows) = Len(split_paths) + 1
        /\ fut = <<>>
        /\ pc = "done" => ChunkFilesLeft = {}
        /\ result = Raised(500, "Failed to split audio")

\* the failure of the invocation before any cleanup: of the segmentation, or
\* of the transcription of the chunks
PrimaryFailure ==
    IF ffmpeg_outcome = "too_large" THEN Raised(413, "Chunk too large")
    ELSE IF ffmpeg_outcome = "CalledProcessError"
    THEN Raised(500, "Failed to split audio")
    ELSE Raised(500, "Transcription failed")

\* C15: when the segmentation or the transcription of the chunks failed and
\* the removal of a chunk file failed too, the caller still gets the primary
\* failure.
C15_CleanupFailureNeverMasks ==
    (/\ pc \in {"finally", "done"}
     /\ remove_failed # {}
     /\ ffmpeg_outcome \in {"too_large", "CalledProcessError"} \/ pool_error.raised) =>
        result = PrimaryFailure

PlanComplete == Len(windows) = num_chunks(duration_seconds)

WindowEnd(k) == windows[k].start + windows[k].duration

\* C7: for every duration D the split produces exactly
\* max(1, ceil((D - 10) / 590)) chunks.
C7_ChunkCountIsCeil ==
    PlanComplete =>
        Len(windows) = Max(1, CeilDiv(duration_seconds - OVERLAP_SECONDS,
                                      effective_chunk_duration))

\* C8: for D > 0 the planned windows start at 0, end at D, every window has a
\* positive duration of at most 600 s, every non-final window lasts exactly
\* 600 s, and each window starts exactly 10 s before its predecessor ends
\* (and reaches at least as far as that end, so the union has no gap).
C8_WindowsCoverWithOverlap ==
    (PlanComplete /\ duration_seconds > 0) =>
        /\ windows[1].start = 0
        /\ WindowEnd(Len(windows)) = duration_seconds
        /\ \A k \in 1..Len(windows) :
              /\ windows[k].duration > 0
              /\ windows[k].duration <= CHUNK_DURATION_SECONDS
              /\ windows[k].start = (k - 1) * effective_chunk_duration
        /\ \A k \in 1..(Len(windows) - 1) :
              /\ windows[k].duration = CHUNK_DURATION_SECONDS
              /\ WindowEnd(k) - windows[k + 1].start = OVERLAP_SECONDS
              /\ WindowEnd(k + 1) >= WindowEnd(k)

\* a plan of three windows whose last one is clamped (e.g. D = 1500)
C8_Witness ==
    /\ PlanComplete
    /\ Len(windows) = 3
    /\ windows[3].duration < CHUNK_DURATION_SECONDS
    /\ windows[2].duration = CHUNK_DURATION_SECONDS

(***************************************************************************)
(* Properties of the vector store service (checked under SpecStore)        *)
(***************************************************************************)
\* the index_meeting calls in progress or finished
IndexRequests == {r \in Requests : req[r].op = "index"}

\* the search calls that returned
FinishedSearches == {r \in Requests : req[r].op = "search" /\ req[r].pc = "done"}

\* the stored records of one meeting in one collection, as (id, content) pairs
StoredOf(collection_id, meeting_id) ==
    {[id |-> f.id, content |-> f.content] :
        f \in {g \in fragments : g.collection = collection_id
                                  /\ g.meeting_id = meeting_id}}

\* the (id, content) pairs of one index_meeting call
SentBy(call) ==
    {[id |-> d.id, content |-> d.content] :
        d \in Range(Batch(call.meeting_id, call.version, call.n))}

\* C3: a search scoped to user U never returns a fragment that was stored by
\* an index_meeting call of a different user id.
C3_SearchReturnsOwnFragmentsOnly ==
    \A r \in FinishedSearches :
        \A k \in 1..Len(req[r].results) :
            req[r].results[k].indexed_by = req[r].user_id

\* C4: after the same meeting id has been indexed twice for one user (one call
\* after the other, no remote failure, nothing else called), the collection
\* holds for that meeting exactly the fragments of the second call, each with
\* the content of the second call.
C4_ReindexLatestContentWins ==
    (/\ ops_started = 2
     /\ Len(index_log) = 2
     /\ ~overlapped
     /\ faults = 0
     /\ index_log[1].user_id = index_log[2].user_id
     /\ index_log[1].meeting_id = index_log[2].meeting_id) =>
        StoredOf(IdOf(_get_collection_name(index_log[2].user_id).value),
                 index_log[2].meeting_id) = SentBy(index_log[2])

\* C5: a CollectionError caused by a transport failure inside
\* _get_or_create_collection reaches the caller only after the third attempt.
C5_TransportFailureRetriedThreeTimes ==
    \A r \in IndexRequests :
        (req[r].pc = "done" /\ req[r].exc = "CollectionError"
            /\ req[r].cause = "transport") =>
                req[r].attempts = MAX_PROVISION_ATTEMPTS

StripInvalid(user_id) ==
    SelectSeq(user_id, LAMBDA c : c \in AlnumChars \cup {"-", "_"})

\* C16: the collection name of a call is "user_<id>_meetings", where <id> is
\* the user id without its characters outside [A-Za-z0-9_-], cut to 100
\* characters; when nothing is left the call ends with a validation error and
\* without a collection name (no request is sent).
C16_CollectionNameBySanitizing ==
    \A r \in Requests :
        req[r].op # "idle" =>
            LET kept == Take(StripInvalid(req[r].user_id), SAFE_ID_MAX_LENGTH)
            IN IF kept = <<>>
               THEN /\ req[r].collection_name = <<>>
                    /\ req[r].pc = "done"
                    /\ req[r].op = "index" => req[r].exc = "ValueError"
               ELSE req[r].collection_name = <<"user_">> \o kept \o <<"_meetings">>

\* the stored records written for index_meeting call r: every text of the
\* k-th call of a behaviour reads k
WrittenBy(r) == {f \in fragments : f.content = req[r].version}

\* C17: the embedding call of index_meeting comes before its batch-add; a call
\* that has not passed the embedding has issued no add request and written no
\* record, and a call whose embedding failed ends there, with EmbeddingError.
C17_EmbeddingFailureWritesNothing ==
    \A r \in IndexRequests :
        /\ req[r].pc \in {"goc_get", "goc_create", "embed"} =>
              req[r].add_requests = 0 /\ WrittenBy(r) = {}
        /\ req[r].cause = "embedding" =>
              /\ req[r].pc = "done"
              /\ req[r].exc = "EmbeddingError"
              /\ req[r].add_requests = 0
              /\ WrittenBy(r) = {}

\* the embedding of an index_meeting call failed while the collection
\* already held the records of an earlier call
C17_Witness ==
    \E r \in IndexRequests :
        /\ req[r].cause = "embedding"
        /\ req[r].pc = "done"
        /\ fragments # {}

\* C18: an index_meeting call issues at most one batch-add request, and
\* exactly one when it returns normally; a failure of that request (error
\* status or transport failure) reaches the caller as VectorStoreError, a
\* failure to look up or create the collection as CollectionError, and a
\* CollectionError never comes from the batch-add.
C18_AddFailureIsVectorStoreError ==
    \A r \in IndexRequests :
        /\ req[r].add_requests <= 1
        /\ (req[r].pc = "done" /\ req[r].exc = "none") => req[r].add_requests = 1
        /\ (req[r].pc = "done" /\ req[r].add_requests = 1
                /\ req[r].cause # "none") => req[r].exc = "VectorStoreError"
        /\ (req[r].pc = "done" /\ req[r].add_requests = 0
                /\ req[r].collection_name # <<>>
                /\ req[r].cause \notin {"none", "embedding"}) =>
                    req[r].exc = "CollectionError"
        /\ req[r].exc = "CollectionError" =>
              req[r].add_requests = 0 /\ req[r].collection_id = 0
        /\ req[r].exc = "VectorStoreError" =>
              req[r].add_requests = 1 \/ req[r].collection_name = <<>>

\* a batch-add request lost in transport ended its call with VectorStoreError
C18_Witness ==
    \E r \in IndexRequests :
        /\ req[r].pc = "done"
        /\ req[r].add_requests = 1
        /\ req[r].cause = "transport"
        /\ req[r].exc = "VectorStoreError"

\* the remote calls of kind "kind" that request r has made
CallsOf(r, kind) == {k \in 1..Len(req[r].calls) : req[r].calls[k].kind = kind}

\* the calls of request r that ended in an error
FailedCalls(r) == {k \in 1..Len(req[r].calls) : req[r].calls[k].outcome # "none"}

\* the calls of index_meeting call r that ended in a provisioning failure
\* other than a transport failure: an unreadable response, or a create
\* request the store refused
NonTransportProvisioningFailures(r) ==
    {k \in FailedCalls(r) :
        \/ /\ req[r].calls[k].kind \in {"get", "create"}
           /\ req[r].calls[k].outcome = "malformed"
        \/ /\ req[r].calls[k].kind = "create"
           /\ req[r].calls[k].outcome \in {"status", "conflict"}}

\* C19: a provisioning failure that is not a transport failure ends
\* index_meeting with CollectionError after one attempt; the embedding, the
\* batch-add, the query, the delete and the get-collection request of search
\* and delete_meeting are each made at most once per operation, and an error
\* of any of them is the last remote call of that operation.
C19_NoRetryOutsideProvisioning ==
    \A r \in Requests :
        /\ (req[r].op = "index" /\ NonTransportProvisioningFailures(r) # {}) =>
              /\ req[r].attempts = 1
              /\ Cardinality(CallsOf(r, "get")) = 1
              /\ Cardinality(CallsOf(r, "create")) <= 1
              /\ NonTransportProvisioningFailures(r) = {Len(req[r].calls)}
              /\ req[r].pc = "done"
              /\ req[r].exc = "CollectionError"
        /\ \A kind \in {"embed", "add", "query", "delete"} :
              Cardinality(CallsOf(r, kind)) <= 1
        /\ req[r].op \in {"search", "delete"} =>
              Cardinality(CallsOf(r, "get")) <= 1
        /\ \A k \in FailedCalls(r) :
              (req[r].op = "index" => req[r].calls[k].kind \in {"embed", "add"}) =>
                  k = Len(req[r].calls) /\ req[r].pc = "done"

\* a create-collection request was refused by the store and index_meeting
\* ended with CollectionError after that one attempt
C19_Witness ==
    \E r \in IndexRequests :
        /\ req[r].pc = "done"
        /\ req[r].exc = "CollectionError"
        /\ req[r].cause = "status"
        /\ req[r].attempts = 1
        /\ Len(req[r].calls) = 2

\* C26: a successful transcribe_audio never returns an empty transcript on
\* the direct path: when the speech-to-text result is empty after stripping
\* whitespace, transcribe_audio fails with HTTP 500 instead of returning it.
C26_DirectPathNeverReturnsEmpty ==
    (DirectCallMade /\ result # NoResult) =>
        /\ result.kind = "returned" =>
              /\ result.text # <<>>
              /\ result.text = Strip(transcript_response.text)
        /\ (transcript_response.ok /\ Strip(transcript_response.text) = <<>>) =>
              /\ result.kind = "raised"
              /\ result.status = 500

C26_Witness ==
    /\ DirectCallMade
    /\ transcript_response.ok
    /\ transcript_response.text = <<" ">>
    /\ result.kind = "raised"
    /\ result.status = 500

\* the chunk files of the transcription calls that are queued or running
FilesInUse ==
    {chunk_paths[k + 1] : k \in {j \in DOMAIN fut :
                                    fut[j].state \in {"queued", "running"}}}

\* the chunks whose call ended without being handed to the collection loop
Uncollected == Range(completion) \ Range(observed)

\* C28: no chunk file is deleted while a worker may still read it: after a
\* chunk failure transcribe_chunks_parallel is not left before every submitted
\* call, running or queued, has ended, so the cleanup of transcribe_audio
\* deletes the chunk files after the last call, and the results of the calls
\* that ended after the failure are discarded.
C28_NoChunkDeletedWhileInUse ==
    /\ FilesInUse \subseteq disk
    /\ (PoolLeft /\ pool_error.raised) =>
          /\ \A k \in DOMAIN fut : fut[k].state \in {"ok", "failed"}
          /\ Range(completion) = DOMAIN fut
          /\ result.kind = "raised"
          /\ \A k \in Uncollected : ~transcripts[k].set

\* a call ended successfully after the failure was raised, and the files are gone
C28_Witness ==
    /\ pc = "done"
    /\ pool_error.raised
    /\ \E k \in Uncollected : fut[k].state = "ok"
    /\ Range(chunk_paths) \cap disk = {}

(***************************************************************************)
(* MeetingService: process_meeting and get_meeting_by_id                   *)
(***************************************************************************)
MaxUploads == 2

\* the users who upload and read meetings
Users == {"u1", "u2"}

\* the meeting ids asked for: those of the table, and one that is not in it
MeetingKeys == 1..(MaxUploads + 1)

\* how save_audio_file ends: the file is written; the upload is over the
\* size limit; open() fails; write() fails
SaveOutcomes == {"saved", "too_large", "open_failed", "write_failed"}

\* the steps of process_meeting after the file is saved
UploadSteps == <<"transcribe", "analyze", "database", "index", "finally">>

StepAfter(step) ==
    UploadSteps[(CHOOSE k \in 1..Len(UploadSteps) : UploadSteps[k] = step) + 1]

\* the except clauses of process_meeting (lines 123-130)
UploadSurface(exc) ==
    IF exc.type = "HTTPException"
    THEN Raised(exc.status, exc.detail)
    ELSE Raised(500, "Failed to process meeting")

uploadRest == <<pipelineAllVars, storeVars, docVars, ragVars, singletonVars>>

\* process_meeting is called (lines 70-74)
StartUpload ==
    /\ upload.pc \in {"idle", "done"}
    /\ uploads_started < MaxUploads
    /\ uploads_started' = uploads_started + 1
    /\ \E u \in Users, extension_ok \in BOOLEAN, too_large \in BOOLEAN,
          vector_store \in BOOLEAN :
         upload' = [IdleUpload EXCEPT !.pc = "validate", !.user_id = u,
                                      !.extension_ok = extension_ok,
                                      !.too_large = too_large,
                                      !.vector_store = vector_store]
    /\ UNCHANGED <<meetings, upload_dir, lookup>>
    /\ UNCHANGED uploadRest

\* AudioService.validate_audio_file (line 75)
ValidateUpload ==
    /\ upload.pc = "validate"
    /\ upload' = IF upload.extension_ok
                 THEN [upload EXCEPT !.pc = "save"]
                 ELSE [upload EXCEPT !.pc = "finally", !.failed_step = "validate",
                          !.outcome = UploadSurface(
                                         HTTPException(400, "Invalid file type"))]
    /\ UNCHANGED <<meetings, upload_dir, uploads_started, lookup>>
    /\ UNCHANGED uploadRest

\* the file a call of save_audio_file opens: a fresh uuid4 name
NewFile == uploads_started

\* audio_path keeps None unless save_audio_file returns
AudioPathAfter(saved, file) == IF saved THEN file ELSE 0

\* AudioService.save_audio_file (line 76; audio_service.py lines 62-90):
\* open(file_path, "wb") creates the file before the size is looked at
SaveAudioFile ==
    /\ upload.pc = "save"
    /\ \E how \in SaveOutcomes :
         /\ how = "too_large" <=> upload.too_large
         /\ upload_dir' = IF how = "open_failed" THEN upload_dir
                          ELSE upload_dir \cup {NewFile}
         /\ upload' =
              [upload EXCEPT
                 !.written = IF how = "open_failed" THEN {} ELSE {NewFile},
                 !.audio_path = AudioPathAfter(how = "saved", NewFile),
                 !.pc = IF how = "saved" THEN "transcribe" ELSE "finally",
                 !.failed_step = IF how = "saved" THEN "none" ELSE "save",
                 !.outcome =
                    CASE how = "saved" -> NoResult
                      [] how = "too_large" ->
                           UploadSurface(HTTPException(413, "File too large"))
                      [] OTHER ->
                           UploadSurface(HTTPException(500,
                                            "Failed to save audio file"))]
    /\ UNCHANGED <<meetings, uploads_started, lookup>>
    /\ UNCHANGED uploadRest

\* the exception a failing step raises: transcribe_audio raises an
\* HTTPException, the analysis and the database anything else
StepException(step) ==
    IF step = "transcribe"
    THEN HTTPException(500, "Failed to transcribe audio")
    ELSE OtherException("Exception")

\* steps 2 to 5: transcribe_audio, process_transcript, get_or_create_user and
\* the insert of the meeting (lines 78-102)
UploadStep ==
    /\ upload.pc \in {"transcribe", "analyze", "database"}
    /\ \E ok \in BOOLEAN :
         /\ upload' =
              IF ok
              THEN [upload EXCEPT !.pc = StepAfter(upload.pc),
                       !.meeting_id = IF upload.pc = "database"
                                      THEN Cardinality(meetings) + 1 ELSE @]
              ELSE [upload EXCEPT !.pc = "finally", !.failed_step = upload.pc,
                       !.outcome = UploadSurface(StepException(upload.pc))]
         /\ meetings' =
              IF ok /\ upload.pc = "database"
              THEN meetings \cup {[id |-> Cardinality(meetings) + 1,
                                   user_id |-> upload.user_id]}
              ELSE meetings
    /\ UNCHANGED <<upload_dir, uploads_started, lookup>>
    /\ UNCHANGED uploadRest

\* an exception of index_meeting is printed, not raised
IndexingFailureRaises(failed) == FALSE

\* step 6: index_meeting when the vector store is configured, inside its own
\* try; then "return meeting" (lines 104-121)
IndexMeeting ==
    /\ upload.pc = "index"
    /\ \E ok \in BOOLEAN :
         /\ ~upload.vector_store => ok
         /\ upload' =
              IF IndexingFailureRaises(~ok)
              THEN [upload EXCEPT !.pc = "finally", !.failed_step = "index",
                       !.index_failed = TRUE,
                       !.outcome = UploadSurface(OtherException("Exception"))]
              ELSE [upload EXCEPT !.pc = "finally", !.index_failed = ~ok,
                       !.outcome = [kind |-> "returned", status |-> 200,
                                    detail |-> "", text |-> <<>>]]
    /\ UNCHANGED <<meetings, upload_dir, uploads_started, lookup>>
    /\ UNCHANGED uploadRest

\* finally: delete_audio_file(audio_path) when audio_path is set; a failure of
\* os.remove is printed, not raised (lines 131-134; audio_service.py 93-105)
FinallyUpload ==
    /\ upload.pc = "finally"
    /\ \E removed \in BOOLEAN :
         /\ upload.audio_path = 0 => removed
         /\ upload_dir' = IF upload.audio_path # 0 /\ removed
                          THEN upload_dir \ {upload.audio_path}
                          ELSE upload_dir
    /\ upload' = [upload EXCEPT !.pc = "done"]
    /\ UNCHANGED <<meetings, uploads_started, lookup>>
    /\ UNCHANGED uploadRest

\* "if meeting.user_id != user_id" (line 180)
Authorized_Anyone(meeting, user_id) == TRUE

Authorized(meeting, user_id) == meeting.user_id = user_id

\* get_meeting_by_id (lines 171-186)
GetMeetingById ==
    /\ \E meeting_id \in MeetingKeys, user_id \in Users :
         LET found == {m \in meetings : m.id = meeting_id}
             call == [NoLookup EXCEPT !.meeting_id = meeting_id,
                                      !.user_id = user_id, !.found = found]
         IN lookup' =
              IF found = {}
              THEN [call EXCEPT !.status = 404, !.detail = "Meeting not found"]
              ELSE LET meeting == CHOOSE m \in found : TRUE
                   IN IF ~Authorized(meeting, user_id)
                      THEN [call EXCEPT !.status = 403,
                              !.detail = "You do not have permission to access this meeting"]
                      ELSE [call EXCEPT !.status = 200, !.meeting = {meeting}]
    /\ UNCHANGED <<meetings, upload_dir, upload, uploads_started>>
    /\ UNCHANGED uploadRest

InitMeetings ==
    /\ duration_seconds = 0
    /\ windows = <<>>
    /\ PipelineIdle
    /\ StoreIdle
    /\ DocsIdle
    /\ ApiIdle

NextMeetings ==
    \/ StartUpload
    \/ ValidateUpload
    \/ SaveAudioFile
    \/ UploadStep
    \/ IndexMeeting
    \/ FinallyUpload
    \/ GetMeetingById

SpecMeetings == InitMeetings /\ [][NextMeetings]_vars

(***************************************************************************)
(* get_rag_service: the lazily created RAGService                          *)
(***************************************************************************)
singletonRest == <<pipelineAllVars, storeVars, docVars, ragVars, meetingVars>>

\* "if _rag_service_instance is None" (line 25)
CheckInstance ==
    /\ \E t \in Resolvers :
         /\ resolving[t].pc = "idle"
         /\ resolving' = [resolving EXCEPT ![t].pc =
                             IF _rag_service_instance = 0 THEN "construct"
                             ELSE "return"]
    /\ UNCHANGED <<_rag_service_instance, constructed>>
    /\ UNCHANGED singletonRest

\* "_rag_service_instance = RAGService()" (lines 26-27)
ConstructInstance ==
    /\ \E t \in Resolvers :
         /\ resolving[t].pc = "construct"
         /\ resolving' = [resolving EXCEPT ![t].pc = "return"]
    /\ constructed' = constructed + 1
    /\ _rag_service_instance' = constructed + 1
    /\ UNCHANGED singletonRest

\* "return _rag_service_instance" (line 28)
ReturnInstance ==
    /\ \E t \in Resolvers :
         /\ resolving[t].pc = "return"
         /\ resolving' = [resolving EXCEPT ![t] =
                             [pc |-> "done", instance |-> _rag_service_instance]]
    /\ UNCHANGED <<_rag_service_instance, constructed>>
    /\ UNCHANGED singletonRest

InitSingleton ==
    /\ duration_seconds = 0
    /\ windows = <<>>
    /\ PipelineIdle
    /\ StoreIdle
    /\ DocsIdle
    /\ ApiIdle

NextSingleton ==
    \/ CheckInstance
    \/ ConstructInstance
    \/ ReturnInstance

SpecSingleton == InitSingleton /\ [][NextSingleton]_vars

(***************************************************************************)
(* Specification of query_meetings after search alone: every list of       *)
(* documents search may hand over                                          *)
(***************************************************************************)
MaxMatches == 4

\* a text of n characters
Text(n) == [i \in 1..n |-> IF i = n THEN "z" ELSE "a"]

\* the lengths of the fragment texts: at the snippet limit and just over it
TextLengths == {MAX_SNIPPET_LENGTH, MAX_SNIPPET_LENGTH + 1}

\* the meetings the fragments come from
SourceIds == {"m1", "m2"}

\* the lists of n documents search may return
ContextDocs(n) ==
    {[i \in 1..n |->
        [content |-> Text(lengths[i]), meeting_id |-> ids[i],
         type |-> IF lengths[i] > MAX_SNIPPET_LENGTH THEN DOC_TYPE_TRANSCRIPT
                  ELSE DOC_TYPE_SUMMARY,
         distance |-> distances[i]]]
     : lengths \in [1..n -> TextLengths], ids \in [1..n -> SourceIds],
       distances \in DistancesOf(n)}

InitAnswer ==
    /\ duration_seconds = 0
    /\ windows = <<>>
    /\ PipelineIdle
    /\ DocsIdle
    /\ StoreIdle
    /\ MeetingsIdle
    /\ SingletonIdle
    /\ \E n \in 0..MaxMatches : \E docs \in ContextDocs(n) :
         rag = [IdleQuery EXCEPT !.pc = "searched", !.user_id = <<"a", "_", "b">>,
                                 !.query = <<"q">>, !.top_k = MaxMatches,
                                 !.context_docs = docs]

NextAnswer == Answer

SpecAnswer == InitAnswer /\ [][NextAnswer]_vars

(***************************************************************************)
(* Claims about the query endpoint                                         *)
(***************************************************************************)
\* the kinds of remote call a request has made
KindsCalled(rq) == {rq.calls[i].kind : i \in 1..Len(rq.calls)}

\* the query being served has called search
SearchCalled == rag.pc # "idle" /\ req[QuerySlot].op = "search"

\* C21: a search for a user whose collection does not exist returns an empty
\* list without raising, without creating a collection and without calling
\* the embedding service; query_meetings then returns the fixed 'no meeting
\* data' answer with empty sources and empty context_used, and the language
\* model is not invoked.
C21_NoCollectionMeansNoData ==
    (SearchCalled /\ CollectionNamed(req[QuerySlot].collection_name) = {})
        => /\ KindsCalled(req[QuerySlot]) \subseteq {"get"}
           /\ req[QuerySlot].exc = "none"
           /\ req[QuerySlot].results = <<>>
           /\ rag.llm_calls = 0
           /\ rag.pc \in {"searched", "done"} => rag.context_docs = <<>>
           /\ rag.pc = "done" =>
                rag.response = [status |-> 200, detail |-> "",
                                answer |-> NO_DATA_ANSWER, sources |-> <<>>,
                                context_used |-> <<>>]

C21_Witness ==
    /\ SearchCalled
    /\ CollectionNamed(req[QuerySlot].collection_name) = {}
    /\ req[QuerySlot].calls = <<[kind |-> "get", outcome |-> "none"]>>
    /\ rag.pc = "done"
    /\ rag.response.answer = NO_DATA_ANSWER

\* the request made a call of this kind that failed in one of these ways
CallFailed(rq, kind, outcomes) ==
    \E i \in 1..Len(rq.calls) :
        rq.calls[i].kind = kind /\ rq.calls[i].outcome \in outcomes

Returned200 == rag.pc = "done" /\ rag.exc = "none" /\ rag.context_docs # <<>>

\* C23: every relevance_score placed in context_used equals 1 - distance of
\* its match and lies in [0, 1] for every distance the store can return, so
\* the response always satisfies the bound 0 <= relevance_score <= 1 of the
\* QueryResponse schema.
C23_RelevanceScoreWithinSchemaBound ==
    Returned200 =>
        /\ \A i \in 1..Len(rag.returned.context_used) :
              /\ rag.returned.context_used[i].relevance_score
                    = 1 - rag.context_docs[i].distance
              /\ rag.returned.context_used[i].relevance_score \in 0..1
        /\ rag.response.status = 200

\* C24: for a non-empty match list the sources returned by query_meetings
\* are exactly the meeting ids occurring among all matches, not only among
\* the three displayed ones, each once; the snippets keep the ranking order
\* of the matches.
C24_SourcesAreDistinctMeetingIdsOfAllMatches ==
    Returned200 =>
        LET sources == rag.returned.sources
            shown == rag.returned.context_used
        IN /\ {sources[i] : i \in 1..Len(sources)}
                 = {rag.context_docs[i].meeting_id : i \in 1..Len(rag.context_docs)}
           /\ \A i, j \in 1..Len(sources) : i # j => sources[i] # sources[j]
           /\ \A i \in 1..Len(shown) :
                 shown[i].meeting_id = rag.context_docs[i].meeting_id

C24_Witness ==
    /\ Returned200
    /\ Len(rag.context_docs) = 4
    /\ \A i \in 1..3 : rag.context_docs[i].meeting_id = "m1"
    /\ rag.context_docs[4].meeting_id = "m2"
    /\ Len(rag.returned.sources) = 2

\* C25: context_used holds min(3, number of matches) snippets, those of the
\* first matches in ranking order; a fragment text of at most 200 characters
\* is returned unchanged and a longer one as its first 200 characters
\* followed by '...', however many matches were passed to answer generation.
C25_TopThreeSnippetsTruncatedAt200 ==
    (rag.pc = "done" /\ rag.exc = "none") =>
        LET shown == rag.returned.context_used
        IN /\ Len(shown) = Min(3, Len(rag.context_docs))
           /\ \A i \in 1..Len(shown) :
                 LET text == rag.context_docs[i].content
                 IN /\ shown[i].type = rag.context_docs[i].type
                    /\ shown[i].meeting_id = rag.context_docs[i].meeting_id
                    /\ Len(text) <= 200 => shown[i].snippet = text
                    /\ Len(text) > 200 =>
                          shown[i].snippet
                             = SubSeq(text, 1, 200) \o <<".", ".", ".">>

C25_Witness ==
    /\ rag.pc = "done"
    /\ rag.exc = "none"
    /\ Len(rag.context_docs) = 4
    /\ Len(rag.returned.context_used) = 3
    /\ Len(rag.context_docs[1].content) = 200
    /\ Len(rag.context_docs[2].content) = 201
    /\ Len(rag.returned.context_used[2].snippet) = 203

(***************************************************************************)
(* Claims about the meeting endpoints and the RAG service instance         *)
(***************************************************************************)
\* C27: get_meeting_by_id returns a meeting only to its owner: it fails with
\* 404 when no meeting has the id, with 403 when the meeting belongs to a
\* different user, and returns the meeting only when its user_id is the
\* requesting user id.
C27_MeetingReturnedOnlyToOwner ==
    lookup.status # 0 =>
        /\ lookup.found = {} => lookup.status = 404
        /\ (lookup.found # {} /\ \A m \in lookup.found : m.user_id # lookup.user_id)
              => lookup.status = 403
        /\ (\E m \in lookup.found : m.user_id = lookup.user_id)
              => lookup.status = 200
        /\ lookup.status = 200 =>
              /\ lookup.meeting \subseteq lookup.found
              /\ \E m \in lookup.meeting :
                    m.id = lookup.meeting_id /\ m.user_id = lookup.user_id
        /\ lookup.status # 200 => lookup.meeting = {}

\* a meeting of u1 is asked for by u2
C27_Witness ==
    /\ lookup.status = 403
    /\ lookup.user_id = "u2"
    /\ \E m \in lookup.found : m.user_id = "u1"

\* the requests whose get_rag_service call has returned
Resolved == {t \in Resolvers : resolving[t].pc = "done"}

\* C29: the lazily constructed RAG service is a process-wide singleton: for
\* any number of requests, two concurrent first requests included, RAGService
\* is constructed at most once and every request receives the same instance.
C29_RagServiceConstructedOnce ==
    /\ constructed <= 1
    /\ \A t, u \in Resolved : resolving[t].instance = resolving[u].instance

\* C30: no uploaded audio file outlives its request: after process_meeting
\* returns or raises on any path (validation failure, upload over the size
\* limit rejected with 413, transcription, analysis or database failure,
\* success) no file written for the upload is left in the upload directory;
\* and a failure of the vector-store indexing alone never makes
\* process_meeting fail.
C30_NoUploadedFileOutlivesRequest ==
    upload.pc = "done" =>
        /\ upload.written \cap upload_dir = {}
        /\ (upload.index_failed /\ upload.failed_step \in {"none", "index"})
              => upload.outcome.kind = "returned"

(***************************************************************************)
(* Specification of _prepare_documents alone: every size of its arguments  *)
(***************************************************************************)
\* the k-th text (from 0) of one argument of _prepare_documents
ItemText(arg, k) == [arg |-> arg, item |-> k]

\* the list argument "arg" with n entries
Items(arg, n) == [k \in 1..n |-> ItemText(arg, k - 1)]

SummaryText == ItemText("summary", 0)

InitDocs ==
    /\ prepare_args \in [chunks : 0..MaxItems, decisions : 0..MaxItems,
                          action_items : 0..MaxItems, key_points : 0..MaxItems]
    /\ documents = <<>>
    /\ duration_seconds = 0
    /\ windows = <<>>
    /\ PipelineIdle
    /\ StoreIdle
    /\ ApiIdle

\* _prepare_documents is called (lines 260-297)
PrepareDocuments ==
    /\ documents = <<>>
    /\ documents' =
         _prepare_documents("m1", Items("transcript", prepare_args.chunks),
                            SummaryText,
                            Items("decisions", prepare_args.decisions),
                            Items("action_items", prepare_args.action_items),
                            Items("key_points", prepare_args.key_points))
    /\ UNCHANGED <<prepare_args, duration_seconds, windows, pipelineVars, storeVars,
                   apiVars>>

NextDocs == PrepareDocuments

SpecDocs == InitDocs /\ [][NextDocs]_vars

\* the documents of the batch of one kind
DocsOfKind(doc_type) ==
    {k \in 1..Len(documents) : documents[k].type = doc_type}

\* the batch holds, for the list "arg" of n entries, one document of kind
\* doc_type per entry, with the entry's text and its position in the list
OnePerItem(arg, n, doc_type) ==
    /\ Cardinality(DocsOfKind(doc_type)) = n
    /\ \A i \in 0..(n - 1) :
          \E k \in DocsOfKind(doc_type) :
              /\ documents[k].content = ItemText(arg, i)
              /\ documents[k].chunk_index = <<IntStr(i)>>
              /\ documents[k].meeting_id = "m1"

\* C20: the batch holds one transcript fragment per transcript chunk with its
\* position, exactly one summary fragment without position, and one fragment
\* per decision, action item and key point with its kind and list position,
\* and nothing else (so with three empty lists only the transcript chunks
\* and the summary); the ids of the batch are pairwise distinct.
C20_OneFragmentPerArtifact ==
    documents # <<>> =>
        /\ OnePerItem("transcript", prepare_args.chunks, DOC_TYPE_TRANSCRIPT)
        /\ OnePerItem("decisions", prepare_args.decisions, DOC_TYPE_DECISION)
        /\ OnePerItem("action_items", prepare_args.action_items,
                      DOC_TYPE_ACTION_ITEM)
        /\ OnePerItem("key_points", prepare_args.key_points, DOC_TYPE_KEY_POINT)
        /\ \E k \in 1..Len(documents) :
              /\ DocsOfKind(DOC_TYPE_SUMMARY) = {k}
              /\ documents[k].content = SummaryText
              /\ documents[k].chunk_index = <<>>
        /\ Len(documents) = prepare_args.chunks + 1 + prepare_args.decisions
                               + prepare_args.action_items + prepare_args.key_points
        /\ \A j, k \in 1..Len(documents) :
              j # k => documents[j].id # documents[k].id

\* a batch prepared from two transcript chunks and three empty lists
C20_Witness ==
    /\ documents # <<>>
    /\ prepare_args = [chunks |-> 2, decisions |-> 0, action_items |-> 0,
                       key_points |-> 0]
    /\ Len(documents) = 3

====
